---------------------------- MODULE Spec2Model ----------------------------
(***************************************************************************)
(* Sentinel: confidential risk monitoring of DeFi positions.               *)
(*                                                                         *)
(*   src/encrypted-ixs/src/lib.rs      the three circuits the MPC cluster  *)
(*                                     evaluates                           *)
(*   src/programs/sentinel/src/lib.rs  the on-ledger program: three        *)
(*                                     queuing instructions and their      *)
(*                                     three callbacks                     *)
(*                                                                         *)
(* TLC's integers are 32 bits wide, so the circuits' u64 words are         *)
(* modelled as words of WordBits bits: every u64 value is a number in      *)
(* 0 .. U64Modulus-1 and `+` on them is taken modulo U64Modulus.  The      *)
(* circuit's literals (500, 1000, 100) and the spec's scenario values      *)
(* (up to 100000) all fit.                                                 *)
(***************************************************************************)
EXTENDS Integers, Sequences, FiniteSets, TLC

VARIABLES
    position_acc,      \* PositionAccount of each PDA, or NoAccount
    sign_pda_account,  \* ArciumSignerAccount.bump, 0 while not initialised
    computations,      \* computation account of each offset, or NoComp
    events,            \* what the last instruction emitted, in order
    step,              \* the last instruction: its name, accounts and result
    circ               \* the last circuit evaluation (circuit specifications)

vars == <<position_acc, sign_pda_account, computations, events, step, circ>>

---------------------------------------------------------------------------
(* Bounds of the model *)

WordBits == 20
MaxOffset == 3
MaxNonce == 2
MaxTime == 1

U64Modulus == 2 ^ WordBits
U64Max == U64Modulus - 1

---------------------------------------------------------------------------
(* Circuits: src/encrypted-ixs/src/lib.rs *)

\* u64 addition
AddU64(a, b) == (a + b) % U64Modulus

PositionData(v, c, t) ==
    [position_value |-> v, collateral_ratio |-> c, liquidation_threshold |-> t]

RiskState(a, s) == [is_at_risk |-> a, severity |-> s]

\* init_risk_state with the defaults set to "at risk"
init_risk_state_at_risk == RiskState(1, 1)

\* init_risk_state(mxe): the plaintext it hands to mxe.from_arcis
init_risk_state == RiskState(0, 0)

\* check_position_health that starts from the previous state and only raises it
check_position_health_sticky(pos, prev) ==
    LET near_liquidation ==
            pos.collateral_ratio < AddU64(pos.liquidation_threshold, 500)
        severity1 == IF near_liquidation THEN 3 ELSE prev.severity
        at_risk1  == IF near_liquidation THEN 1 ELSE prev.is_at_risk
        warning ==
            severity1 = 0
            /\ pos.collateral_ratio < AddU64(pos.liquidation_threshold, 1000)
        severity2 == IF warning THEN 2 ELSE severity1
        at_risk2  == IF warning THEN 1 ELSE at_risk1
        drained == severity2 = 0 /\ pos.position_value < 100
        severity3 == IF drained THEN 1 ELSE severity2
        at_risk3  == IF drained THEN 1 ELSE at_risk2
    IN  RiskState(at_risk3, severity3)

\* check_position_health whose drained branch sets the severity and not at_risk
check_position_health_drained_unflagged(pos, prev) ==
    LET near_liquidation ==
            pos.collateral_ratio < AddU64(pos.liquidation_threshold, 500)
        severity1 == IF near_liquidation THEN 3 ELSE 0
        at_risk1  == IF near_liquidation THEN 1 ELSE 0
        warning ==
            severity1 = 0
            /\ pos.collateral_ratio < AddU64(pos.liquidation_threshold, 1000)
        severity2 == IF warning THEN 2 ELSE severity1
        at_risk2  == IF warning THEN 1 ELSE at_risk1
        drained == severity2 = 0 /\ pos.position_value < 100
        severity3 == IF drained THEN 1 ELSE severity2
    IN  RiskState(at_risk2, severity3)

\* check_position_health(position, risk_state): the plaintext new_state.
\* prev is decrypted and not used.
check_position_health(pos, prev) ==
    LET near_liquidation ==
            pos.collateral_ratio < AddU64(pos.liquidation_threshold, 500)
        severity1 == IF near_liquidation THEN 3 ELSE 0
        at_risk1  == IF near_liquidation THEN 1 ELSE 0
        warning ==
            severity1 = 0
            /\ pos.collateral_ratio < AddU64(pos.liquidation_threshold, 1000)
        severity2 == IF warning THEN 2 ELSE severity1
        at_risk2  == IF warning THEN 1 ELSE at_risk1
        drained == severity2 = 0 /\ pos.position_value < 100
        severity3 == IF drained THEN 1 ELSE severity2
        at_risk3  == IF drained THEN 1 ELSE at_risk2
    IN  RiskState(at_risk3, severity3)

\* reveal_risk that takes is_at_risk for a level and reveals it above 1
circuit_reveal_risk_above_one(state) == state.is_at_risk > 1

\* reveal_risk(risk_state): the revealed boolean
circuit_reveal_risk(state) == state.is_at_risk > 0


---------------------------------------------------------------------------
(* Encryption as the program sees it: a ciphertext opens to its plaintext  *)
(* only under the nonce it was sealed with.                                *)

\* Enc<Owner, T>: owner.from_arcis(pt) under a nonce
Enc(owner, nonce, pt) == [owner |-> owner, nonce |-> nonce, pt |-> pt]

\* [[0; 32]; 2], the placeholder register_position writes
ZeroCiphertext == [zero |-> 2]

\* What a decryption that does not match yields: some pair of u64 words
GarbageStates == {RiskState(a, s) : a \in {0, 7}, s \in {0, 9}}

\* Enc<_, RiskState>::to_arcis on the words ct read under the nonce n
to_arcis(ct, n) ==
    IF ct # ZeroCiphertext /\ ct.nonce = n THEN {ct.pt} ELSE GarbageStates

---------------------------------------------------------------------------
(* The ledger: src/programs/sentinel/src/lib.rs *)

Payers == {"alice", "bob"}
PositionIds == {1}
Offsets == 1 .. MaxOffset
Nonces == 1 .. MaxNonce
Timestamps == 1 .. MaxTime

\* the inputs a health check is submitted with (spec scenarios 1 and 4)
CheckInputs ==
    { PositionData(100000, 11400, 11000),
      PositionData(100000, 15000, 11000) }

\* seeds = [b"position", payer, position_id]
Pda(owner, position_id) == <<owner, position_id>>
Keys == {Pda(p, i) : p \in Payers, i \in PositionIds}
NoKey == <<>>
Bump == 255

NoAccount == [none |-> "account"]
NoComp == [none |-> "computation"]
NoOutput == [none |-> "output"]
NoPosition == [none |-> "position"]
Cluster == "cluster"

\* struct PositionAccount
PositionAccount(bump, risk_state, position_id, owner, nonce, last_check, is_active) ==
    [bump |-> bump, risk_state |-> risk_state, position_id |-> position_id,
     owner |-> owner, nonce |-> nonce, last_check |-> last_check,
     is_active |-> is_active]

Exists(k) == position_acc[k] # NoAccount
Queued(c) == computations[c] # NoComp

\* queue_computation: the computation account created at derive_comp_pda(offset)
queue_computation(kind, args, callback_acc) ==
    [kind |-> kind, args |-> args,
     callback_acc |-> callback_acc, output |-> NoOutput, settled |-> FALSE]

Args(nonce, position, account) ==
    [nonce |-> nonce, position |-> position, account |-> account]

Step(op, result) == [op |-> op, result |-> result]

\* an instruction that returned Err: the transaction is rolled back
Rejected(op, result) ==
    /\ step' = Step(op, result)
    /\ events' = <<>>
    /\ UNCHANGED <<position_acc, sign_pda_account, computations, circ>>

\* register_position that leaves is_active at the default of bool
register_position_inactive(payer, computation_offset, position_id, nonce) ==
    LET k == Pda(payer, position_id)
        result ==
            IF Exists(k) THEN "AccountInUse"
            ELSE IF Queued(computation_offset) THEN "ComputationInUse"
            ELSE "Ok"
    IN  IF result # "Ok"
        THEN Rejected("register_position", result)
        ELSE /\ position_acc' = [position_acc EXCEPT ![k] =
                    PositionAccount(Bump, ZeroCiphertext, position_id, payer,
                                    nonce, 0, FALSE)]
             /\ sign_pda_account' = Bump
             /\ computations' = [computations EXCEPT ![computation_offset] =
                    queue_computation("init_risk_state",
                                      Args(nonce, NoPosition, NoKey), k)]
             /\ events' = <<>>
             /\ step' = Step("register_position", "Ok")
             /\ UNCHANGED circ

\* register_position with init_if_needed in place of init on position_acc
register_position_if_needed(payer, computation_offset, position_id, nonce) ==
    LET k == Pda(payer, position_id)
        result == IF Queued(computation_offset) THEN "ComputationInUse" ELSE "Ok"
    IN  IF result # "Ok"
        THEN Rejected("register_position", result)
        ELSE /\ position_acc' = [position_acc EXCEPT ![k] =
                    PositionAccount(Bump, ZeroCiphertext, position_id, payer,
                                    nonce, 0, TRUE)]
             /\ sign_pda_account' = Bump
             /\ computations' = [computations EXCEPT ![computation_offset] =
                    queue_computation("init_risk_state",
                                      Args(nonce, NoPosition, NoKey), k)]
             /\ events' = <<>>
             /\ step' = Step("register_position", "Ok")
             /\ UNCHANGED circ

\* register_position and the account constraints of RegisterPosition
register_position(payer, computation_offset, position_id, nonce) ==
    LET k == Pda(payer, position_id)
        result ==
            IF Exists(k) THEN "AccountInUse"               \* init
            ELSE IF Queued(computation_offset) THEN "ComputationInUse"
            ELSE "Ok"
    IN  IF result # "Ok"
        THEN Rejected("register_position", result)
        ELSE /\ position_acc' = [position_acc EXCEPT ![k] =
                    PositionAccount(Bump, ZeroCiphertext, position_id, payer,
                                    nonce, 0, TRUE)]
             /\ sign_pda_account' = Bump
             /\ computations' = [computations EXCEPT ![computation_offset] =
                    queue_computation("init_risk_state",
                                      Args(nonce, NoPosition, NoKey), k)]
             /\ events' = <<>>
             /\ step' = Step("register_position", "Ok")
             /\ UNCHANGED circ

\* check_health without the is_active requirement
check_health_unguarded(owner, computation_offset, position_id, position, encryption_nonce) ==
    LET k == Pda(owner, position_id)
        result ==
            IF ~Exists(k) THEN "AccountNotInitialized"
            ELSE IF position_acc[k].owner # owner THEN "ConstraintHasOne"
            ELSE IF Queued(computation_offset) THEN "ComputationInUse"
            ELSE "Ok"
    IN  IF result # "Ok"
        THEN Rejected("check_health", result)
        ELSE /\ sign_pda_account' = Bump
             /\ computations' = [computations EXCEPT ![computation_offset] =
                    queue_computation("check_position_health",
                        Args(position_acc[k].nonce,
                             Enc("Shared", encryption_nonce, position), k), k)]
             /\ events' = <<>>
             /\ step' = Step("check_health", "Ok")
             /\ UNCHANGED <<position_acc, circ>>

\* check_health and the account constraints of CheckHealth.  Any signer may
\* pay: neither the constraints nor the handler read payer.
check_health(owner, computation_offset, position_id, position, encryption_nonce) ==
    LET k == Pda(owner, position_id)
        result ==
            IF ~Exists(k) THEN "AccountNotInitialized"
            ELSE IF position_acc[k].owner # owner THEN "ConstraintHasOne"
            ELSE IF ~position_acc[k].is_active THEN "PositionInactive"
            ELSE IF Queued(computation_offset) THEN "ComputationInUse"
            ELSE "Ok"
    IN  IF result # "Ok"
        THEN Rejected("check_health", result)
        ELSE /\ sign_pda_account' = Bump
             /\ computations' = [computations EXCEPT ![computation_offset] =
                    queue_computation("check_position_health",
                        Args(position_acc[k].nonce,
                             Enc("Shared", encryption_nonce, position), k), k)]
             /\ events' = <<>>
             /\ step' = Step("check_health", "Ok")
             /\ UNCHANGED <<position_acc, circ>>

\* reveal_risk that hands position_acc to its callback as a writable account,
\* as register_position and check_health do
reveal_risk_names_record(payer, k, computation_offset, position_id) ==
    LET result ==
            IF ~Exists(k) THEN "AccountNotInitialized"
            ELSE IF k # Pda(payer, position_id) THEN "ConstraintSeeds"
            ELSE IF payer # position_acc[k].owner THEN "InvalidAuthority"
            ELSE IF Queued(computation_offset) THEN "ComputationInUse"
            ELSE "Ok"
    IN  IF result # "Ok"
        THEN Rejected("reveal_risk", result)
        ELSE /\ sign_pda_account' = Bump
             /\ computations' = [computations EXCEPT ![computation_offset] =
                    queue_computation("reveal_risk",
                        Args(position_acc[k].nonce, NoPosition, k), k)]
             /\ events' = <<>>
             /\ step' = Step("reveal_risk", "Ok")
             /\ UNCHANGED <<position_acc, circ>>

\* reveal_risk with the account constraints of CheckHealth (a PDA seeded by
\* the record's owner) and without the authority check
reveal_risk_unguarded(payer, k, computation_offset, position_id) ==
    LET result ==
            IF ~Exists(k) THEN "AccountNotInitialized"
            ELSE IF k # Pda(position_acc[k].owner, position_id) THEN "ConstraintSeeds"
            ELSE IF Queued(computation_offset) THEN "ComputationInUse"
            ELSE "Ok"
    IN  IF result # "Ok"
        THEN Rejected("reveal_risk", result)
        ELSE /\ sign_pda_account' = Bump
             /\ computations' = [computations EXCEPT ![computation_offset] =
                    queue_computation("reveal_risk",
                        Args(position_acc[k].nonce, NoPosition, k), NoKey)]
             /\ events' = <<>>
             /\ step' = Step("reveal_risk", "Ok")
             /\ UNCHANGED <<position_acc, circ>>

\* reveal_risk and the account constraints of RevealRisk; k is the account
\* the caller passes as position_acc
reveal_risk(payer, k, computation_offset, position_id) ==
    LET result ==
            IF ~Exists(k) THEN "AccountNotInitialized"
            ELSE IF k # Pda(payer, position_id) THEN "ConstraintSeeds"
            ELSE IF payer # position_acc[k].owner THEN "InvalidAuthority"
            ELSE IF Queued(computation_offset) THEN "ComputationInUse"
            ELSE "Ok"
    IN  IF result # "Ok"
        THEN Rejected("reveal_risk", result)
        ELSE /\ sign_pda_account' = Bump
             /\ computations' = [computations EXCEPT ![computation_offset] =
                    queue_computation("reveal_risk",
                        Args(position_acc[k].nonce, NoPosition, k), NoKey)]
             /\ events' = <<>>
             /\ step' = Step("reveal_risk", "Ok")
             /\ UNCHANGED <<position_acc, circ>>

---------------------------------------------------------------------------
(* The cluster and the callbacks *)

Idle == [fn |-> "none"]

\* check_position_health that seals its result for the owner of `position`
check_output_owner_position(position_owner, risk_state_owner) == position_owner

\* the key check_position_health seals its result under:
\* risk_state.owner.from_arcis(new_state), risk_state being Enc<Mxe, RiskState>
check_output_owner(position_owner, risk_state_owner) == risk_state_owner

\* SignedComputationOutputs<T>: a value, who signed it and for which
\* computation account
SignedOutput(signer, computation, kind, value) ==
    [signer |-> signer, computation |-> computation, kind |-> kind, value |-> value]

\* the Enc<Mxe, RiskState> a circuit returns: ciphertexts and nonce
EncOutput(ct) == [ciphertexts |-> ct, nonce |-> ct.nonce]

\* The cluster evaluates the circuit of a queued computation.  The account
\* argument is a reference (key, offset 8 + 1, length 32 * 2): the words are
\* those the account holds when the cluster reads it; the nonce argument is
\* the one captured when the computation was queued.  The nonce of the
\* output is the cluster's choice.
Execute(c, n) ==
    /\ Queued(c)
    /\ computations[c].output = NoOutput
    /\ LET comp == computations[c]
           prevs == IF comp.args.account = NoKey THEN {init_risk_state}
                    ELSE to_arcis(position_acc[comp.args.account].risk_state,
                                  comp.args.nonce)
       IN  \E prev \in prevs :
             LET value ==
                   CASE comp.kind = "init_risk_state" ->
                          EncOutput(Enc("Mxe", n, init_risk_state))
                     [] comp.kind = "check_position_health" ->
                          EncOutput(Enc(check_output_owner(comp.args.position.owner,
                                                        "Mxe"), n,
                              check_position_health(comp.args.position.pt, prev)))
                     [] comp.kind = "reveal_risk" ->
                          [revealed |-> circuit_reveal_risk(prev)]
             IN  computations' = [computations EXCEPT ![c].output = value]
    /\ events' = <<>>
    /\ step' = Step("execute", "Ok")
    /\ UNCHANGED <<position_acc, sign_pda_account, circ>>

\* the computations of a kind the cluster has signed an output for
Executed(kind) ==
    {d \in Offsets : /\ Queued(d)
                     /\ computations[d].kind = kind
                     /\ computations[d].output # NoOutput}

\* what anyone can hand to a callback of a kind, as <<computation account,
\* output>>: an output the cluster signed, with its own computation account
\* or with another one, and the same value under another signature
Deliveries(kind) ==
    {<<c, SignedOutput(Cluster, d, kind, computations[d].output)>> :
        c \in Offsets, d \in Executed(kind)}
    \cup
    {<<d, SignedOutput("forger", d, kind, computations[d].output)>> :
        d \in Executed(kind)}

\* output.verify_output(&cluster_account, &computation_account)
verify_output(output, computation_account, kind) ==
    /\ output.signer = Cluster
    /\ output.computation = computation_account
    /\ output.kind = kind

\* a callback that runs on whatever existing position_acc it is handed
CallbackAccountAny(c, k) == Exists(k)

\* the position_acc a callback runs on: the callback account the queuing
\* instruction named in callback_ix
CallbackAccountOk(c, k) ==
    /\ Exists(k)
    /\ Queued(c) /\ computations[c].callback_acc # NoKey
          => k = computations[c].callback_acc

\* ghost, read by no instruction: a callback of the computation c has committed
Committed(c) ==
    [computations EXCEPT ![c].settled = TRUE]

Event(name, fields) == [name |-> name, fields |-> fields]

\* init_risk_state_callback that stamps last_check like the check callback
init_risk_state_callback_stamps(computation_account, output, k, now) ==
    /\ CallbackAccountOk(computation_account, k)
    /\ IF ~verify_output(output, computation_account, "init_risk_state")
       THEN Rejected("init_risk_state_callback", "AbortedComputation")
       ELSE /\ position_acc' = [position_acc EXCEPT
                    ![k].risk_state = output.value.ciphertexts,
                    ![k].nonce = output.value.nonce,
                    ![k].last_check = now]
            /\ events' = <<Event("PositionRegistered",
                    [owner |-> position_acc[k].owner,
                     position_id |-> position_acc[k].position_id,
                     timestamp |-> now])>>
            /\ computations' = Committed(computation_account)
            /\ step' = Step("init_risk_state_callback", "Ok")
            /\ UNCHANGED <<sign_pda_account, circ>>

\* init_risk_state_callback that writes only while the record still holds the
\* placeholder register_position left
init_risk_state_callback_once(computation_account, output, k, now) ==
    /\ CallbackAccountOk(computation_account, k)
    /\ IF ~verify_output(output, computation_account, "init_risk_state")
       THEN Rejected("init_risk_state_callback", "AbortedComputation")
       ELSE /\ position_acc' =
                    IF position_acc[k].risk_state = ZeroCiphertext
                    THEN [position_acc EXCEPT
                            ![k].risk_state = output.value.ciphertexts,
                            ![k].nonce = output.value.nonce]
                    ELSE position_acc
            /\ events' = <<Event("PositionRegistered",
                    [owner |-> position_acc[k].owner,
                     position_id |-> position_acc[k].position_id,
                     timestamp |-> now])>>
            /\ computations' = Committed(computation_account)
            /\ step' = Step("init_risk_state_callback", "Ok")
            /\ UNCHANGED <<sign_pda_account, circ>>

\* init_risk_state_callback that writes the output before it verifies it
init_risk_state_callback_write_first(computation_account, output, k, now) ==
    /\ CallbackAccountOk(computation_account, k)
    /\ position_acc' = [position_acc EXCEPT
            ![k].risk_state = output.value.ciphertexts,
            ![k].nonce = output.value.nonce]
    /\ IF ~verify_output(output, computation_account, "init_risk_state")
       THEN /\ step' = Step("init_risk_state_callback", "AbortedComputation")
            /\ events' = <<>>
            /\ UNCHANGED <<sign_pda_account, computations, circ>>
       ELSE /\ events' = <<Event("PositionRegistered",
                    [owner |-> position_acc[k].owner,
                     position_id |-> position_acc[k].position_id,
                     timestamp |-> now])>>
            /\ computations' = Committed(computation_account)
            /\ step' = Step("init_risk_state_callback", "Ok")
            /\ UNCHANGED <<sign_pda_account, circ>>

init_risk_state_callback(computation_account, output, k, now) ==
    /\ CallbackAccountOk(computation_account, k)
    /\ IF ~verify_output(output, computation_account, "init_risk_state")
       THEN Rejected("init_risk_state_callback", "AbortedComputation")
       ELSE /\ position_acc' = [position_acc EXCEPT
                    ![k].risk_state = output.value.ciphertexts,
                    ![k].nonce = output.value.nonce]
            /\ events' = <<Event("PositionRegistered",
                    [owner |-> position_acc[k].owner,
                     position_id |-> position_acc[k].position_id,
                     timestamp |-> now])>>
            /\ computations' = Committed(computation_account)
            /\ step' = Step("init_risk_state_callback", "Ok")
            /\ UNCHANGED <<sign_pda_account, circ>>

\* check_position_health_callback that rebuilds the record from the output
\* and leaves the fields it does not name at their defaults
check_position_health_callback_rebuilds(computation_account, output, k, now) ==
    /\ CallbackAccountOk(computation_account, k)
    /\ IF ~verify_output(output, computation_account, "check_position_health")
       THEN Rejected("check_position_health_callback", "AbortedComputation")
       ELSE /\ position_acc' = [position_acc EXCEPT ![k] =
                    PositionAccount(position_acc[k].bump,
                                    output.value.ciphertexts, 0, "default",
                                    output.value.nonce, now,
                                    position_acc[k].is_active)]
            /\ events' = <<Event("HealthCheckCompleted",
                    [owner |-> position_acc[k].owner,
                     position_id |-> position_acc[k].position_id,
                     timestamp |-> now])>>
            /\ computations' = Committed(computation_account)
            /\ step' = Step("check_position_health_callback", "Ok")
            /\ UNCHANGED <<sign_pda_account, circ>>

check_position_health_callback(computation_account, output, k, now) ==
    /\ CallbackAccountOk(computation_account, k)
    /\ IF ~verify_output(output, computation_account, "check_position_health")
       THEN Rejected("check_position_health_callback", "AbortedComputation")
       ELSE /\ position_acc' = [position_acc EXCEPT
                    ![k].risk_state = output.value.ciphertexts,
                    ![k].nonce = output.value.nonce,
                    ![k].last_check = now]
            /\ events' = <<Event("HealthCheckCompleted",
                    [owner |-> position_acc[k].owner,
                     position_id |-> position_acc[k].position_id,
                     timestamp |-> now])>>
            /\ computations' = Committed(computation_account)
            /\ step' = Step("check_position_health_callback", "Ok")
            /\ UNCHANGED <<sign_pda_account, circ>>

\* the emit! calls of reveal_risk_callback on the verified boolean o
RevealEvents(o, now) ==
    <<Event("RiskRevealed", [is_at_risk |-> o, timestamp |-> now])>>
    \o (IF o
        THEN <<Event("ActionRequired",
                     [action_type |-> "emergency_withdraw", timestamp |-> now])>>
        ELSE <<>>)

\* reveal_risk_callback that emits ActionRequired whatever was revealed
reveal_risk_callback_always_action(computation_account, output, now) ==
    IF ~verify_output(output, computation_account, "reveal_risk")
    THEN Rejected("reveal_risk_callback", "AbortedComputation")
    ELSE /\ events' = RevealEvents(output.value.revealed, now)
                       \o (IF output.value.revealed THEN <<>>
                           ELSE <<Event("ActionRequired",
                                        [action_type |-> "emergency_withdraw",
                                         timestamp |-> now])>>)
         /\ computations' = Committed(computation_account)
         /\ step' = Step("reveal_risk_callback", "Ok")
         /\ UNCHANGED <<position_acc, sign_pda_account, circ>>

reveal_risk_callback(computation_account, output, now) ==
    IF ~verify_output(output, computation_account, "reveal_risk")
    THEN Rejected("reveal_risk_callback", "AbortedComputation")
    ELSE /\ events' = RevealEvents(output.value.revealed, now)
         /\ computations' = Committed(computation_account)
         /\ step' = Step("reveal_risk_callback", "Ok")
         /\ UNCHANGED <<position_acc, sign_pda_account, circ>>

---------------------------------------------------------------------------
(* The program *)

Init ==
    /\ position_acc = [k \in Keys |-> NoAccount]
    /\ sign_pda_account = 0
    /\ computations = [c \in Offsets |-> NoComp]
    /\ events = <<>>
    /\ step = Step("none", "Ok")
    /\ circ = Idle

\* Offsets are opaque identifiers the caller chooses: a caller picks one
\* already in use (a collision) or the lowest free one.
CallerOffsets == {c \in Offsets : \A d \in 1 .. (c - 1) : Queued(d)}

\* the nonce the position data of a check is sealed under
EncryptionNonces == {MaxNonce}

RegisterPosition ==
    \E payer \in Payers, c \in CallerOffsets, i \in PositionIds, n \in Nonces :
        register_position(payer, c, i, n)

CheckHealth ==
    \E owner \in Payers, c \in CallerOffsets, i \in PositionIds,
       pos \in CheckInputs, n \in EncryptionNonces :
        check_health(owner, c, i, pos, n)

RevealRisk ==
    \E payer \in Payers, k \in Keys, c \in CallerOffsets, i \in PositionIds :
        reveal_risk(payer, k, c, i)

ClusterExecutes ==
    \E c \in Offsets, n \in Nonces : Execute(c, n)

InitRiskStateCallback ==
    \E d \in Deliveries("init_risk_state"), k \in Keys, now \in Timestamps :
        init_risk_state_callback(d[1], d[2], k, now)

CheckPositionHealthCallback ==
    \E d \in Deliveries("check_position_health"), k \in Keys, now \in Timestamps :
        check_position_health_callback(d[1], d[2], k, now)

RevealRiskCallback ==
    \E d \in Deliveries("reveal_risk"), now \in Timestamps :
        reveal_risk_callback(d[1], d[2], now)

Next ==
    \/ RegisterPosition
    \/ CheckHealth
    \/ RevealRisk
    \/ ClusterExecutes
    \/ InitRiskStateCallback
    \/ CheckPositionHealthCallback
    \/ RevealRiskCallback

Spec == Init /\ [][Next]_vars

\* The handlers on a deactivated record.  No instruction of the program
\* clears is_active, so Spec reaches no such record; here one record starts
\* as a registered and checked PositionAccount with is_active = false, and
\* the program runs on from there.
InitDeactivated ==
    /\ position_acc =
            [k \in Keys |->
                IF k = Pda("alice", 1)
                THEN PositionAccount(Bump, Enc("Mxe", 1, RiskState(1, 3)), 1,
                                     "alice", 1, 1, FALSE)
                ELSE NoAccount]
    /\ sign_pda_account = Bump
    /\ computations = [c \in Offsets |-> NoComp]
    /\ events = <<>>
    /\ step = Step("none", "Ok")
    /\ circ = Idle

SpecDeactivated == InitDeactivated /\ [][Next]_vars

---------------------------------------------------------------------------
(* The circuits on their own: one evaluation of init or check on u64 words *)
(* drawn from the edges of the classification and of the word, then reveal *)
(* on the state it produced.                                               *)

ValueSamples == {0, 50, 99, 100, 100000, U64Max}
RatioSamples ==
    {0, 499, 500, 999, 1000, 11000, 11400, 11499, 11500, 11800, 11999, 12000,
     12500, 15000, U64Modulus - 1001, U64Modulus - 1000, U64Modulus - 501,
     U64Modulus - 500, U64Max}
ThresholdSamples ==
    {0, 1, 11000, U64Modulus - 1001, U64Modulus - 1000, U64Modulus - 501,
     U64Modulus - 500, U64Max}
PositionSamples ==
    {PositionData(v, c, t) :
        v \in ValueSamples, c \in RatioSamples, t \in ThresholdSamples}

\* what a circuit can find in its risk_state argument
PrevSamples == GarbageStates \cup {RiskState(0, 0), RiskState(1, 3)}

Evaluation(fn, pos, prev, out) ==
    [fn |-> fn, pos |-> pos, prev |-> prev, out |-> out]

Ledger == <<position_acc, sign_pda_account, computations, events, step>>

EvalInit ==
    /\ circ = Idle
    /\ \E prev \in PrevSamples :
         circ' = Evaluation("init_risk_state", NoPosition, prev, init_risk_state)
    /\ UNCHANGED Ledger

EvalCheck ==
    /\ circ = Idle
    /\ \E pos \in PositionSamples, prev \in PrevSamples :
         circ' = Evaluation("check_position_health", pos, prev,
                            check_position_health(pos, prev))
    /\ UNCHANGED Ledger

\* reveal on the state the last init or check evaluation produced
EvalReveal ==
    /\ circ # Idle
    /\ circ.fn \in {"init_risk_state", "check_position_health"}
    /\ circ' = Evaluation("reveal_risk", circ.pos, circ.out,
                          [revealed |-> circuit_reveal_risk(circ.out)])
    /\ UNCHANGED Ledger

\* what reveal_risk_callback emits for the boolean the reveal produced
EvalPublish ==
    /\ circ # Idle
    /\ circ.fn = "reveal_risk"
    /\ \E now \in Timestamps :
         circ' = Evaluation("reveal_risk_callback", circ.pos, circ.prev,
                            RevealEvents(circ.out.revealed, now))
    /\ UNCHANGED Ledger

NextCircuits ==
    \/ EvalInit
    \/ EvalCheck
    \/ EvalReveal
    \/ EvalPublish

SpecCircuits == Init /\ [][NextCircuits]_vars

---------------------------------------------------------------------------
(* Claims *)

\* the classification of C1, over the integers
Classified(pos) ==
    IF pos.collateral_ratio < pos.liquidation_threshold + 500
        THEN RiskState(1, 3)
    ELSE IF pos.collateral_ratio < pos.liquidation_threshold + 1000
        THEN RiskState(1, 2)
    ELSE IF pos.position_value < 100
        THEN RiskState(1, 1)
    ELSE RiskState(0, 0)

\* C1: for every PositionData input check_position_health returns the first
\* matching case of the priority list: (3, at risk) if collateral_ratio <
\* liquidation_threshold + 500, else (2, at risk) if collateral_ratio <
\* liquidation_threshold + 1000, else (1, at risk) if position_value < 100,
\* else (0, safe).
C1_FirstMatchingCase ==
    circ # Idle /\ circ.fn = "check_position_health"
        => circ.out = Classified(circ.pos)

\* C10: the init circuit returns RiskState{is_at_risk: 0, severity: 0}
\* whatever the record or any earlier computation holds: every output of an
\* executed init computation seals that state.
C10_InitAlwaysSafe ==
    \A c \in Offsets :
        /\ Queued(c)
        /\ computations[c].kind = "init_risk_state"
        /\ computations[c].output # NoOutput
        => computations[c].output.ciphertexts.pt = RiskState(0, 0)

\* C10 witness: the init computation of a record is the last one executed,
\* while the record already holds the critical state a check committed
C10_Witness ==
    /\ step = Step("execute", "Ok")
    /\ \E c \in Offsets :
        /\ Queued(c)
        /\ computations[c].kind = "init_risk_state"
        /\ computations[c].output # NoOutput
        /\ ~computations[c].settled
        /\ position_acc[computations[c].callback_acc].risk_state # ZeroCiphertext
        /\ position_acc[computations[c].callback_acc].risk_state.pt = RiskState(1, 3)
        /\ \A d \in Offsets \ {c} : Queued(d) => computations[d].settled

\* a callback of the given kind run with these inputs, as an action
CallbackStep(kind, c, o, k, now) ==
    CASE kind = "init_risk_state" -> init_risk_state_callback(c, o, k, now)
      [] kind = "check_position_health" ->
            check_position_health_callback(c, o, k, now)
      [] kind = "reveal_risk" -> reveal_risk_callback(c, o, now)

Kinds == {"init_risk_state", "check_position_health", "reveal_risk"}
CallbackOp(kind) == kind \o "_callback"

\* C2: a callback whose output fails verification (wrong signer or another
\* computation's output) returns AbortedComputation, leaves every record as
\* it was (risk_state, nonce and last_check included) and emits nothing.
C2_FailedVerificationAborts ==
    [][\A kind \in Kinds :
         step'.op = CallbackOp(kind) =>
           \A d \in Deliveries(kind), k \in Keys, now \in Timestamps :
             /\ ~verify_output(d[2], d[1], kind)
             /\ CallbackStep(kind, d[1], d[2], k, now)
             => /\ step'.result = "AbortedComputation"
                /\ position_acc' = position_acc
                /\ events' = <<>>]_vars

\* C2 witness: a check callback was aborted on a record that holds a
\* committed ciphertext
C2_Witness ==
    /\ step = Step("check_position_health_callback", "AbortedComputation")
    /\ \E k \in Keys : Exists(k) /\ position_acc[k].risk_state # ZeroCiphertext

\* the callbacks that write a record
Writers == {"init_risk_state", "check_position_health"}

\* C3: settlement is exactly once per queued request: a callback delivered
\* for a computation that has already committed, or for a computation
\* account that was never queued, is rejected and writes nothing.
C3_ExactlyOnce ==
    [][\A kind \in Kinds :
         step'.op = CallbackOp(kind) =>
           \A d \in Deliveries(kind), k \in Keys, now \in Timestamps :
             /\ ~Queued(d[1]) \/ computations[d[1]].settled
             /\ CallbackStep(kind, d[1], d[2], k, now)
             => /\ step'.result # "Ok"
                /\ position_acc' = position_acc]_vars

\* C4: the risk_state of an existing record changes only in a verified init
\* or check callback commit on that record; check_health and reveal_risk
\* leave every record unchanged; register_position leaves the existing
\* records unchanged and the record it creates holds the zero placeholder.
C4_SingleWriter ==
    [][/\ \A k \in Keys :
            Exists(k) /\ position_acc'[k].risk_state # position_acc[k].risk_state
            => \E kind \in Writers :
                 /\ step' = Step(CallbackOp(kind), "Ok")
                 /\ \E d \in Deliveries(kind), now \in Timestamps :
                      /\ verify_output(d[2], d[1], kind)
                      /\ CallbackStep(kind, d[1], d[2], k, now)
       /\ step'.op \in {"check_health", "reveal_risk"}
            => position_acc' = position_acc
       /\ step'.op = "register_position"
            => \A k \in Keys :
                 IF Exists(k) THEN position_acc'[k] = position_acc[k]
                 ELSE \/ position_acc'[k] = NoAccount
                      \/ position_acc'[k].risk_state = ZeroCiphertext]_vars

\* C4 witness: a check commit has just replaced a committed ciphertext by
\* another one, with a check and a reveal queued on the record before
C4_Witness ==
    /\ step = Step("check_position_health_callback", "Ok")
    /\ \E k \in Keys, c \in Offsets :
        /\ Exists(k)
        /\ position_acc[k].risk_state # ZeroCiphertext
        /\ position_acc[k].risk_state.pt = RiskState(1, 3)
        /\ Queued(c)
        /\ computations[c].kind = "reveal_risk"
        /\ computations[c].args.account = k

\* C6: reveal_risk submitted by a payer who is not the owner of the record
\* passed as position_acc is rejected and queues nothing: no computation is
\* recorded, nothing is emitted and no record changes.
C6_NonOwnerRevealRejected ==
    [][step'.op = "reveal_risk" =>
         \A payer \in Payers, k \in Keys, c \in Offsets, i \in PositionIds :
            /\ Exists(k)
            /\ payer # position_acc[k].owner
            /\ reveal_risk(payer, k, c, i)
            => /\ step'.result \in {"ConstraintSeeds", "InvalidAuthority"}
               /\ computations' = computations
               /\ position_acc' = position_acc
               /\ events' = <<>>]_vars

\* C6 witness: a reveal on a committed record by a payer whose PDA it is not
\* has just been rejected
C6_Witness ==
    /\ step = Step("reveal_risk", "ConstraintSeeds")
    /\ \E k \in Keys : Exists(k) /\ position_acc[k].risk_state # ZeroCiphertext

\* C9: every verified init or check callback commit changes the nonce of
\* the record it commits to.
C9_NonceChanges ==
    [][\A kind \in Writers :
         step' = Step(CallbackOp(kind), "Ok") =>
           \A d \in Deliveries(kind), k \in Keys, now \in Timestamps :
             CallbackStep(kind, d[1], d[2], k, now)
             => position_acc'[k].nonce # position_acc[k].nonce]_vars

\* C7: on every RiskState the init and check circuits produce, the reveal
\* circuit returns exactly severity > 0, and the reveal callback publishes
\* that boolean and nothing else of the state: RiskRevealed carries it, and
\* ActionRequired carries the constant action type.
C7_RevealIsSeverityPositive ==
    /\ circ.fn = "reveal_risk"
        => circ.out.revealed = (circ.prev.severity > 0)
    /\ circ.fn = "reveal_risk_callback"
        => /\ circ.out[1].name = "RiskRevealed"
           /\ DOMAIN circ.out[1].fields = {"is_at_risk", "timestamp"}
           /\ circ.out[1].fields.is_at_risk = (circ.prev.severity > 0)
           /\ \A i \in 2 .. Len(circ.out) :
                /\ circ.out[i].name = "ActionRequired"
                /\ DOMAIN circ.out[i].fields = {"action_type", "timestamp"}
                /\ circ.out[i].fields.action_type = "emergency_withdraw"

\* C7 witness: the state of a drained position (severity 1) was revealed
\* and published
C7_Witness ==
    /\ circ.fn = "reveal_risk_callback"
    /\ circ.prev = RiskState(1, 1)
    /\ circ.out[1].fields.is_at_risk

HasEvent(es, name) == \E i \in 1 .. Len(es) : es[i].name = name

\* C8: end to end.  A reveal the cluster evaluates on the ciphertext a
\* settled check committed, under the nonce that ciphertext was sealed
\* with, yields severity > 0 of the check's inputs; the reveal callback
\* then emits RiskRevealed with that boolean, and ActionRequired if and
\* only if it is true.
C8_EndToEnd ==
    [][/\ step' = Step("execute", "Ok") =>
            \A c \in Offsets, d \in Offsets :
               /\ Queued(c) /\ Queued(d)
               /\ computations[c].kind = "reveal_risk"
               /\ computations[c].output = NoOutput
               /\ computations'[c].output # NoOutput
               /\ computations[d].kind = "check_position_health"
               /\ computations[d].settled
               /\ computations[d].callback_acc = computations[c].args.account
               /\ position_acc[computations[c].args.account].risk_state
                     = computations[d].output.ciphertexts
               /\ computations[c].args.nonce = computations[d].output.nonce
               => computations'[c].output.revealed
                     = (Classified(computations[d].args.position.pt).severity > 0)
       /\ step' = Step("reveal_risk_callback", "Ok") =>
            \A d \in Deliveries("reveal_risk"), now \in Timestamps :
               reveal_risk_callback(d[1], d[2], now)
               => /\ events'[1].name = "RiskRevealed"
                  /\ events'[1].fields.is_at_risk = d[2].value.revealed
                  /\ HasEvent(events', "ActionRequired") <=> d[2].value.revealed]_vars

\* C8 witness: register, init settled, a check of 11400 against 11000
\* settled, the owner's reveal queued on that state and settled: RiskRevealed
\* carries true and ActionRequired follows it
C8_Witness ==
    /\ step = Step("reveal_risk_callback", "Ok")
    /\ Len(events) = 2
    /\ events[1].name = "RiskRevealed" /\ events[1].fields.is_at_risk
    /\ events[2].name = "ActionRequired"
    /\ \E i \in Offsets, d \in Offsets, c \in Offsets, k \in Keys :
        /\ Queued(i) /\ Queued(d) /\ Queued(c) /\ Exists(k)
        /\ computations[i].kind = "init_risk_state"
        /\ computations[i].callback_acc = k /\ computations[i].settled
        /\ computations[d].kind = "check_position_health"
        /\ computations[d].callback_acc = k /\ computations[d].settled
        /\ computations[d].args.position.pt = PositionData(100000, 11400, 11000)
        /\ position_acc[k].risk_state = computations[d].output.ciphertexts
        /\ computations[c].kind = "reveal_risk"
        /\ computations[c].args.account = k /\ computations[c].settled
        /\ computations[c].args.nonce = computations[d].output.nonce
        /\ computations[c].output.revealed

\* C5: check_health on a record whose is_active is false fails with
\* PositionInactive and queues nothing: no computation is recorded and no
\* record changes.
C5_InactiveRejected ==
    [][step'.op = "check_health" =>
         \A owner \in Payers, c \in Offsets, i \in PositionIds,
            pos \in CheckInputs, n \in EncryptionNonces :
            /\ Exists(Pda(owner, i))
            /\ ~position_acc[Pda(owner, i)].is_active
            /\ check_health(owner, c, i, pos, n)
            => /\ step'.result = "PositionInactive"
               /\ computations' = computations
               /\ position_acc' = position_acc
               /\ sign_pda_account' = sign_pda_account
               /\ events' = <<>>]_vars

\* C5 witness: a check on the deactivated record has just been rejected,
\* with a free computation offset left to queue it on
C5_Witness ==
    /\ step = Step("check_health", "PositionInactive")
    /\ \E c \in Offsets : ~Queued(c)

\* C11: the owner and the position_id of a record are those register_position
\* set (the payer and the id its PDA is seeded with) and no step changes
\* them: a record, once created, stays, with the same owner and position_id.
C11_OwnerImmutable ==
    [][\A k \in Keys :
         /\ Exists(k)
              => /\ position_acc'[k] # NoAccount
                 /\ position_acc'[k].owner = position_acc[k].owner
                 /\ position_acc'[k].position_id = position_acc[k].position_id
         /\ ~Exists(k) /\ position_acc'[k] # NoAccount
              => /\ step' = Step("register_position", "Ok")
                 /\ Pda(position_acc'[k].owner, position_acc'[k].position_id) = k]_vars

\* C11 witness: a record that went through a check commit and on which a
\* reveal has settled still names its owner
C11_Witness ==
    /\ step = Step("reveal_risk_callback", "Ok")
    /\ \E k \in Keys, c \in Offsets :
        /\ Exists(k)
        /\ position_acc[k].last_check # 0
        /\ position_acc[k].owner = k[1]
        /\ Queued(c)
        /\ computations[c].kind = "reveal_risk"
        /\ computations[c].args.account = k
        /\ computations[c].settled


\* the check computations the cluster has produced an output for
CheckOutputs ==
    {computations[c].output.ciphertexts : c \in Executed("check_position_health")}

InitRequests(k) ==
    {c \in Offsets : /\ Queued(c)
                     /\ computations[c].kind = "init_risk_state"
                     /\ computations[c].callback_acc = k}

\* C14, register: register_position creates the record with a zero risk_state,
\* is_active, last_check 0, owner = payer and the caller's nonce, and queues
\* exactly one init request whose callback account is that record.
C14_RegisterCreates ==
    step' = Step("register_position", "Ok") =>
      \E k \in Keys :
        /\ ~Exists(k)
        /\ \E n \in Nonces :
             position_acc'[k] =
               PositionAccount(Bump, ZeroCiphertext, k[2], k[1], n, 0, TRUE)
        /\ \A j \in Keys \ {k} : position_acc'[j] = position_acc[j]
        /\ \E c \in Offsets :
             /\ ~Queued(c)
             /\ computations' = [computations EXCEPT ![c] =
                    queue_computation("init_risk_state",
                        Args(position_acc'[k].nonce, NoPosition, NoKey), k)]

\* C14, pending: the ciphertext of a record leaves the zero placeholder only
\* in the verified init callback of the request queued for it.
C14_ZeroUntilInit ==
    \A k \in Keys :
      /\ Exists(k)
      /\ position_acc[k].risk_state = ZeroCiphertext
      /\ position_acc'[k].risk_state # ZeroCiphertext
      => /\ step' = Step("init_risk_state_callback", "Ok")
         /\ \E c \in InitRequests(k) :
              /\ computations[c].output # NoOutput
              /\ position_acc'[k].risk_state = computations[c].output.ciphertexts

\* C14, commit: the verified init callback writes the returned ciphertext and
\* nonce and emits PositionRegistered.
C14_InitCommits ==
    step' = Step("init_risk_state_callback", "Ok") =>
      \E k \in Keys : \E c \in InitRequests(k) :
        /\ computations[c].output # NoOutput
        /\ position_acc' = [position_acc EXCEPT
               ![k].risk_state = computations[c].output.ciphertexts,
               ![k].nonce = computations[c].output.nonce]
        /\ Len(events') = 1
        /\ events'[1].name = "PositionRegistered"

\* C14: register_position creates the pending record and queues one init
\* request naming it; the record's ciphertext stays the zero placeholder until
\* the init callback of that request is verified, which writes the returned
\* ciphertext and nonce and emits PositionRegistered.
C14_PendingUntilInit ==
    [][C14_RegisterCreates /\ C14_ZeroUntilInit /\ C14_InitCommits]_vars

\* C15: while the init request queued by register_position has not settled,
\* the record is pending: its risk_state is still the zero placeholder and
\* its last_check is still unset, whatever else was submitted against it.
C15_PendingWhileUnsettled ==
    \A k \in Keys :
      /\ Exists(k)
      /\ \A c \in InitRequests(k) : ~computations[c].settled
      => /\ position_acc[k].risk_state = ZeroCiphertext
         /\ position_acc[k].last_check = 0


\* the check requests that have committed on the record k
CheckCommits(k) ==
    {c \in Offsets : /\ Queued(c)
                     /\ computations[c].kind = "check_position_health"
                     /\ computations[c].callback_acc = k
                     /\ computations[c].settled}

\* C16: a verified init callback writes ciphertext and nonce and leaves
\* last_check (and every other field) as it was; a verified check callback
\* writes ciphertext, nonce and last_check; a step that does not return Ok
\* writes nothing; last_check changes in no step but a check commit, and is
\* 0 on a record no check has committed on.
C16_OneMutationPerCommit ==
    [][/\ step' = Step("init_risk_state_callback", "Ok") =>
            \E k \in Keys, c \in Executed("init_risk_state") :
              position_acc' = [position_acc EXCEPT
                  ![k].risk_state = computations[c].output.ciphertexts,
                  ![k].nonce = computations[c].output.nonce]
       /\ step' = Step("check_position_health_callback", "Ok") =>
            \E k \in Keys, c \in Executed("check_position_health"),
               now \in Timestamps :
              position_acc' = [position_acc EXCEPT
                  ![k].risk_state = computations[c].output.ciphertexts,
                  ![k].nonce = computations[c].output.nonce,
                  ![k].last_check = now]
       /\ step'.result # "Ok" => position_acc' = position_acc
       /\ \A k \in Keys :
            /\ Exists(k)
                 /\ position_acc'[k].last_check # position_acc[k].last_check
                 => step' = Step("check_position_health_callback", "Ok")
            /\ Exists(k) /\ CheckCommits(k) = {}
                 => position_acc[k].last_check = 0]_vars

\* C16 witness: a record the init callback committed on with last_check still
\* 0 sits next to one a check callback has just stamped
C16_Witness ==
    /\ step = Step("check_position_health_callback", "Ok")
    /\ \E k \in Keys, j \in Keys :
         /\ Exists(k) /\ Exists(j)
         /\ position_acc[k].last_check # 0
         /\ CheckCommits(k) # {}
         /\ position_acc[j].last_check = 0
         /\ position_acc[j].risk_state # ZeroCiphertext
         /\ \E c \in InitRequests(j) : computations[c].settled

\* the reveal requests queued so far
RevealRequests ==
    {c \in Offsets : Queued(c) /\ computations[c].kind = "reveal_risk"}

\* C17: reveal is read-only on the record: neither reveal_risk nor
\* reveal_risk_callback changes any field of any record, a reveal request
\* names no callback account, and the callback only emits RiskRevealed and
\* ActionRequired.
C17_RevealReadOnly ==
    [][/\ step'.op \in {"reveal_risk", "reveal_risk_callback"} =>
            position_acc' = position_acc
       /\ \A c \in Offsets :
            Queued(c)' /\ computations'[c].kind = "reveal_risk"
              => computations'[c].callback_acc = NoKey
       /\ step' = Step("reveal_risk_callback", "Ok") =>
            /\ Len(events') >= 1
            /\ \A i \in 1 .. Len(events') :
                 events'[i].name \in {"RiskRevealed", "ActionRequired"}
            /\ \A c \in Offsets :
                 Queued(c) => computations'[c].output = computations[c].output]_vars

\* C17 witness: a reveal of a record that a check found at risk has settled
\* and the record still holds the check's ciphertext and timestamp
C17_Witness ==
    /\ step = Step("reveal_risk_callback", "Ok")
    /\ Len(events) = 2
    /\ \E c \in RevealRequests :
         LET k == computations[c].args.account
         IN  /\ computations[c].settled
             /\ computations[c].output = [revealed |-> TRUE]
             /\ position_acc[k].risk_state # ZeroCiphertext
             /\ position_acc[k].risk_state.pt.severity = 3
             /\ position_acc[k].last_check # 0


\* C18: the output of the check circuit depends only on the PositionData: the
\* evaluation on (pos, prev) returned what the circuit returns on pos with any
\* other prior RiskState.
C18_PrevIgnored ==
    circ.fn = "check_position_health" =>
      \A prev2 \in PrevSamples :
        check_position_health(circ.pos, prev2) = circ.out

\* C18 witness: a check evaluated on a healthy position with the prior state
\* critical returned the safe state
C18_Witness ==
    /\ circ.fn = "check_position_health"
    /\ circ.prev = RiskState(1, 3)
    /\ circ.pos = PositionData(100000, 15000, 11000)
    /\ circ.out = RiskState(0, 0)

\* the callback accounts of the init and check requests: the record the
\* queuing instruction ran on
C19_QueuedOnRecord ==
    \A c \in Offsets :
      Queued(c) /\ computations[c].kind \in {"init_risk_state", "check_position_health"}
        => /\ computations[c].callback_acc \in Keys
           /\ Exists(computations[c].callback_acc)
           /\ computations[c].kind = "check_position_health"
                => computations[c].args.account = computations[c].callback_acc

C20_WellFormedState ==
    circ.fn \in {"init_risk_state", "check_position_health"} =>
      /\ circ.out.is_at_risk \in {0, 1}
      /\ circ.out.severity \in 0 .. 3
      /\ (circ.out.is_at_risk = 1) <=> (circ.out.severity > 0)
      /\ circuit_reveal_risk(circ.out) = (circ.out.severity > 0)

\* C20 witness: a check on a drained position, with a prior state that is no
\* well-formed RiskState, returned (1, 1)
C20_Witness ==
    /\ circ.fn = "check_position_health"
    /\ circ.prev = RiskState(7, 9)
    /\ circ.pos.position_value < 100
    /\ circ.out = RiskState(1, 1)


\* the requests queued on the record k that no callback has committed
Outstanding(k) ==
    {c \in Offsets : /\ Queued(c)
                     /\ computations[c].args.account = k
                          \/ computations[c].callback_acc = k
                     /\ ~computations[c].settled}

\* C21, queuing: whether a check or a reveal is accepted depends on the record
\* and on the computation offset only, never on the requests outstanding on
\* the record.
C21_NothingBlocks ==
    /\ step'.op = "check_health" =>
         \A owner \in Payers, c \in Offsets, i \in PositionIds,
            pos \in CheckInputs, n \in EncryptionNonces :
           check_health(owner, c, i, pos, n)
             => (step'.result = "Ok"
                   <=> /\ Exists(Pda(owner, i))
                       /\ position_acc[Pda(owner, i)].is_active
                       /\ ~Queued(c))
    /\ step'.op = "reveal_risk" =>
         \A payer \in Payers, k \in Keys, c \in Offsets, i \in PositionIds :
           reveal_risk(payer, k, c, i)
             => (step'.result = "Ok"
                   <=> Exists(k) /\ k = Pda(payer, i) /\ ~Queued(c))

\* C21, settling: a verified init or check callback leaves in the record the
\* ciphertext and nonce of its own output, whatever the record held and
\* whichever request was queued last.
C21_LastSettlerWins ==
    \A kind \in {"init_risk_state", "check_position_health"} :
      step' = Step(CallbackOp(kind), "Ok") =>
        \E c \in Executed(kind) :
          /\ computations' = Committed(c)
          /\ position_acc'[computations[c].callback_acc].risk_state
               = computations[c].output.ciphertexts
          /\ position_acc'[computations[c].callback_acc].nonce
               = computations[c].output.nonce

\* C21: requests on one record do not block each other, and every verified
\* init or check callback overwrites ciphertext and nonce unconditionally, so
\* the record holds the result of the last callback to settle (an init
\* callback that settles after a check commit puts the init result back).
C21_Concurrent ==
    [][C21_NothingBlocks /\ C21_LastSettlerWins]_vars

\* C21 witness: a check was queued and committed (severity 3) while the init
\* request was outstanding, then the init callback settled: the record holds
\* the init result, with the check's last_check
C21_Witness ==
    /\ step = Step("init_risk_state_callback", "Ok")
    /\ \E k \in Keys :
         /\ Exists(k)
         /\ position_acc[k].last_check # 0
         /\ \E c \in CheckCommits(k) :
              computations[c].output.ciphertexts.pt = RiskState(1, 3)
         /\ \E c \in InitRequests(k) :
              /\ computations[c].settled
              /\ position_acc[k].risk_state = computations[c].output.ciphertexts
         /\ position_acc[k].risk_state.pt = RiskState(0, 0)
         /\ Outstanding(k) # {}


\* C22: every record is active in every state the program reaches from
\* construction: register_position sets is_active and nothing clears it, so
\* check_health never returns PositionInactive.
C22_AlwaysActive ==
    /\ \A k \in Keys : Exists(k) => position_acc[k].is_active = TRUE
    /\ step.result # "PositionInactive"

\* C22 witness: a check is accepted on a record that init and check callbacks
\* have both committed on
C22_Witness ==
    /\ step = Step("check_health", "Ok")
    /\ \E k \in Keys :
         /\ Exists(k)
         /\ position_acc[k].is_active
         /\ position_acc[k].last_check # 0
         /\ \E c \in InitRequests(k) : computations[c].settled
         /\ CheckCommits(k) # {}
         /\ Outstanding(k) # {}


\* C23: the sums liquidation_threshold + 500 and liquidation_threshold + 1000
\* the check circuit computes on u64 equal the sums over the integers, for
\* every threshold up to the largest u64, so the evaluation compared
\* collateral_ratio with the unwrapped sums.
C23_SumsDoNotWrap ==
    circ.fn = "check_position_health" =>
      LET t == circ.pos.liquidation_threshold
          r == circ.pos.collateral_ratio
      IN  /\ AddU64(t, 500) = t + 500
          /\ AddU64(t, 1000) = t + 1000
          /\ (circ.out.severity = 3) <=> (r < t + 500)
          /\ (circ.out.severity = 2) <=> (r >= t + 500 /\ r < t + 1000)

===========================================================================
